---- MODULE Spec2Model ----
(***************************************************************************)
(* Model of src/src/main.rs: a two-transaction flow against a ledger.      *)
(* Transaction (Unit) 1 calls mint_coin three times; the program then      *)
(* queries the sender's MINTCOINs, and transaction (Unit) 2 joins three of *)
(* them, splits 5 off, calls get_flag and transfers the leftovers.         *)
(* The ledger, the key store and the contract are collaborators: their     *)
(* answers are nondeterministic choices over what they can return.         *)
(***************************************************************************)
EXTENDS Integers, Sequences, FiniteSets, TLC

(* ---------------- bounds of the model ---------------- *)
MaxPriorTokens == 3      \* MINTCOINs the sender may own before the run
MaxGasCoins == 2         \* gas coins the sender may own before the run
MaxAddresses == 1        \* addresses the key store may hold
MaxPrice == 2            \* reference gas prices range over 1..MaxPrice
MaxEpochChanges == 1     \* times the reference gas price may change in a run

(* ---------------- program constants ---------------- *)
NumMints == 3            \* for i in 1..=3
BridgeCount == 3         \* mint_coins.data.len() < 3
SplitValue == 5          \* bcs::to_bytes(&5u64)
GasBudget == 50000000    \* 50_000_000
InitialSharedVersion == 6286155

TREASURY_CAP_ID == "TREASURY_CAP_ID"
SHARED_COUNTER_ID == "SHARED_COUNTER_ID"
WaitForLocalExecution == "WaitForLocalExecution"

(* ---------------- object identifiers ---------------- *)
GasIds == 1..MaxGasCoins
TokenBase == MaxGasCoins
MaxTokens == MaxPriorTokens + NumMints
TokenIds == (TokenBase + 1)..(TokenBase + MaxTokens)
SplitCoinId == TokenBase + MaxTokens + 1
AllIds == GasIds \cup TokenIds \cup {SplitCoinId}

NoRef == <<0, 0>>
NoAddress == 0

VARIABLES
    pc,           \* position of main
    err,          \* the error main returned, "" while none
    log,          \* sequence of the steps main has taken, in order
    addresses,    \* keystore.addresses()
    sender_address,
    live,         \* ledger: ids of the objects the sender owns now
    ver,          \* ledger: version of every object id (0: never existed)
    refPrice,     \* ledger: current reference gas price
    epochChanges, \* number of price changes so far
    invokeMode,   \* contract: whether get_flag consumes or borrows its coin
    execStatus,   \* ledger: per Unit, "none" | "success" | "failure"
    created1,     \* ledger: token ids created by Unit 1's execution
    inflight,     \* submissions sent and not yet returned
    submits,      \* per Unit, number of execute_transaction_block calls
    gas_coin, gas_price, tx_data1, signature1, response1,
    mint_coins, ptb2, gas_coin2, tx_data2, signature2, response2

vars == <<pc, err, log, addresses, sender_address, live, ver, refPrice,
          epochChanges, invokeMode, execStatus, created1, inflight, submits,
          gas_coin, gas_price, tx_data1, signature1, response1,
          mint_coins, ptb2, gas_coin2, tx_data2, signature2, response2>>

ledgerVars == <<live, ver, execStatus, created1>>
envVars == <<addresses, invokeMode>>
unit1Vars == <<gas_coin, gas_price, tx_data1, signature1, response1>>
unit2Vars == <<mint_coins, ptb2, gas_coin2, tx_data2, signature2, response2>>

(* ---------------- helpers ---------------- *)
RECURSIVE SetMax(_)
SetMax(S) == IF S = {} THEN 0
             ELSE LET x == CHOOSE y \in S : TRUE
                      m == SetMax(S \ {x})
                  IN IF x > m THEN x ELSE m

\* position of a step in the log, 0 when it has not happened
Pos(step) == IF \E i \in 1..Len(log) : log[i] = step
             THEN CHOOSE i \in 1..Len(log) : log[i] = step
             ELSE 0

ObjectRef(id) == <<id, ver[id]>>

\* The possible first k entries of a query's result list over the objects S
\* of one coin type: the order of the list is the ledger's choice.  Objects of
\* one type and one version differ in nothing but their id, so of the lists
\* that differ only by renaming such objects one is kept: the one that takes
\* them in the order of their ids.
FirstK(S, k) ==
    LET n == IF Cardinality(S) < k THEN Cardinality(S) ELSE k
    IN { s \in [1..n -> S] :
           /\ \A i, j \in 1..n : i # j => s[i] # s[j]
           /\ \A i \in 1..n : \A x \in S :
                 (ver[x] = ver[s[i]] /\ x < s[i]) =>
                     \E j \in 1..(i - 1) : s[j] = x }

\* a gas query that returns every object the sender owns, of any type
LiveGas_AnyType == live

\* get_coins(sender_address, None, ..): the coins of the gas coin type only
LiveGas == live \cap GasIds
LiveTokens == live \cap (TokenIds \cup {SplitCoinId})

(* ---------------- ProgrammableTransactionBuilder ---------------- *)
\* CallArg values
SharedObject(id) ==
    [kind |-> "SharedObject", body |-> <<id, InitialSharedVersion, TRUE>>]
ImmOrOwnedObject(ref) == [kind |-> "ImmOrOwnedObject", body |-> ref]
Pure(type, value) == [kind |-> "Pure", body |-> <<type, value>>]

\* ProgrammableTransactionBuilder::new(); n tells the two builders apart, and
\* issued lists the handles the builder has handed out, in the order of the
\* calls that produced them
NewBuilder(n) == [id |-> n, inputs |-> <<>>, commands |-> <<>>, issued |-> <<>>]

SameCallArg(a, b) == a.kind = b.kind /\ a.body = b.body

HasInput(ptb, arg) ==
    \E i \in 1..Len(ptb.inputs) : SameCallArg(ptb.inputs[i], arg)

\* In the four builder operations below b stands for the value of ptb: the
\* builder a call is made on is worked out once, however long the chain of
\* calls that produced it.

\* ptb.input(arg): the builder after the call (an equal input is not added
\* twice) ...
WithInput(ptb, arg) ==
    CHOOSE after \in
        { IF HasInput(b, arg) THEN b
          ELSE [b EXCEPT !.inputs = Append(@, arg),
                         !.issued = Append(@, [kind |-> "Input", ptb |-> b.id,
                                               idx |-> Len(b.inputs)])]
          : b \in {ptb} } : TRUE

\* ... and the Argument::Input(index) it returns (index from 0)
InputArg(ptb, arg) ==
    CHOOSE handle \in
        { [kind |-> "Input", ptb |-> b.id,
           idx |-> IF HasInput(b, arg)
                   THEN (CHOOSE i \in 1..Len(b.inputs) :
                             SameCallArg(b.inputs[i], arg)) - 1
                   ELSE Len(b.inputs)]
          : b \in {ptb} } : TRUE

\* a builder that puts a new command in front of the earlier ones
WithCommand_Prepend(ptb, cmd) == [ptb EXCEPT !.commands = <<cmd>> \o @]

\* ptb.command(cmd): the builder after the call ...
WithCommand(ptb, cmd) ==
    CHOOSE after \in
        { [b EXCEPT !.commands = Append(@, cmd),
                    !.issued = Append(@, [kind |-> "Result", ptb |-> b.id,
                                          idx |-> Len(b.commands)])]
          : b \in {ptb} } : TRUE

\* a builder that hands out the index after the command's own
ResultArg_OffByOne(ptb) ==
    [kind |-> "Result", ptb |-> ptb.id, idx |-> Len(ptb.commands) + 1]

\* ... and the Argument::Result(index) it returns (index from 0)
ResultArg(ptb) ==
    CHOOSE handle \in
        { [kind |-> "Result", ptb |-> b.id, idx |-> Len(b.commands)]
          : b \in {ptb} } : TRUE

NoArg == [kind |-> "None", ptb |-> 0, idx |-> 0]

MoveCall(package, module, function, arguments) ==
    [kind |-> "MoveCall", target |-> <<package, module, function>>,
     arguments |-> arguments, address |-> NoArg]

TransferObjects(objects, address) ==
    [kind |-> "TransferObjects", target |-> <<"", "", "">>,
     arguments |-> objects, address |-> address]

\* ptb.finish()
Finish(ptb) == [inputs |-> ptb.inputs, commands |-> ptb.commands]

(* ---------------- Unit 1: three mint_coin calls ---------------- *)
TreasuryCapArg == InputArg(NewBuilder(1), SharedObject(TREASURY_CAP_ID))

MintCommand ==
    MoveCall("PACKAGE_ID", "mintcoin", "mint_coin", <<TreasuryCapArg>>)

RECURSIVE MintLoop(_, _)
MintLoop(ptb, i) ==
    IF i > NumMints THEN ptb
    ELSE MintLoop(WithCommand(ptb, MintCommand), i + 1)

Ptb1 == MintLoop(WithInput(NewBuilder(1), SharedObject(TREASURY_CAP_ID)), 1)

(* ---------------- Unit 2: join, join, split, get_flag, transfers -------- *)
Ptb2(coin_ref1, coin_ref2, coin_ref3, sender) ==
    LET b0 == NewBuilder(2)
        counter_arg == InputArg(b0, SharedObject(SHARED_COUNTER_ID))
        b1 == WithInput(b0, SharedObject(SHARED_COUNTER_ID))
        coin1_arg == InputArg(b1, ImmOrOwnedObject(coin_ref1))
        b2 == WithInput(b1, ImmOrOwnedObject(coin_ref1))
        coin2_arg == InputArg(b2, ImmOrOwnedObject(coin_ref2))
        b3 == WithInput(b2, ImmOrOwnedObject(coin_ref2))
        coin3_arg == InputArg(b3, ImmOrOwnedObject(coin_ref3))
        b4 == WithInput(b3, ImmOrOwnedObject(coin_ref3))
        b5 == WithCommand(b4, MoveCall("0x2", "coin", "join",
                                       <<coin1_arg, coin2_arg>>))
        b6 == WithCommand(b5, MoveCall("0x2", "coin", "join",
                                       <<coin1_arg, coin3_arg>>))
        value_arg == InputArg(b6, Pure("u64", SplitValue))
        b7 == WithInput(b6, Pure("u64", SplitValue))
        coin_with_5 == ResultArg(b7)
        b8 == WithCommand(b7, MoveCall("0x2", "coin", "split",
                                       <<coin1_arg, value_arg>>))
        b9 == WithCommand(b8, MoveCall("PACKAGE_ID", "mintcoin", "get_flag",
                                       <<counter_arg, coin_with_5>>))
        addr_arg == InputArg(b9, Pure("address", sender))
        b10 == WithInput(b9, Pure("address", sender))
        b11 == WithCommand(b10, TransferObjects(<<coin_with_5>>, addr_arg))
        b12 == WithCommand(b11, TransferObjects(<<coin1_arg>>, addr_arg))
    IN b12

\* TransactionData::new_programmable(sender, vec![gas], pt, budget, price)
NewProgrammable(sender, gas_payment, pt, budget, price) ==
    [sender |-> sender, gas_payment |-> gas_payment, pt |-> pt,
     gas_budget |-> budget, gas_price |-> price]

\* the owned ObjectRefs a transaction uses: its gas payment and its
\* ImmOrOwnedObject inputs
OwnedInputsOf(pt) ==
    { pt.inputs[i].body :
        i \in { j \in 1..Len(pt.inputs) :
                    pt.inputs[j].kind = "ImmOrOwnedObject" } }

OwnedInputs(tx) == OwnedInputsOf(tx.pt)

OwnedRefs(tx) ==
    { tx.gas_payment[i] : i \in 1..Len(tx.gas_payment) } \cup OwnedInputs(tx)


(* ---------------- values of variables not yet assigned ---------------- *)
NoCoin == [ref |-> NoRef, at |-> 0]
NoPrice == [val |-> 0, at |-> 0]
NoPt == [inputs |-> <<>>, commands |-> <<>>]
NoTx == NewProgrammable(NoAddress, <<>>, NoPt, 0, 0)
NoSignature == [by |-> NoAddress, unit |-> 0]
NoResponse == [status |-> "none", created |-> {}]
NoCoins == [refs |-> <<>>, len |-> 0, at |-> 0]

Running == pc \notin {"done", "failed"}

(* ---------------- the ledger ---------------- *)
\* a transaction's objects get the version 1 + the highest input version
Lamport(tx) == 1 + SetMax({ r[2] : r \in OwnedRefs(tx) })

\* the node accepts a transaction only if every owned ObjectRef it names is
\* the current version of a live object and its gas price is not below the
\* reference gas price
Admissible(tx) ==
    /\ tx.gas_price >= refPrice
    /\ \A r \in OwnedRefs(tx) : r[1] \in live /\ ver[r[1]] = r[2]

\* object id named by an Argument::Input of an owned object
ArgObj(pt, h) == pt.inputs[h.idx + 1].body[1]

CommandsOf(pt, function) ==
    { pt.commands[i] :
        i \in { j \in 1..Len(pt.commands) :
                    pt.commands[j].target[3] = function } }

\* coin::join(a, b) destroys b and changes a; coin::split(a, v) changes a
JoinedAway(pt) == { ArgObj(pt, c.arguments[2]) : c \in CommandsOf(pt, "join") }
Changed(pt) ==
    { ArgObj(pt, c.arguments[1]) :
        c \in CommandsOf(pt, "join") \cup CommandsOf(pt, "split") }
SplitOff(pt) == IF CommandsOf(pt, "split") = {} THEN {} ELSE {SplitCoinId}

\* ids of the k tokens a successful Unit 1 creates for the sender
Minted(k) ==
    LET n == Cardinality({ t \in TokenIds : ver[t] > 0 })
    IN (TokenBase + n + 1)..(TokenBase + n + k)

\* what execute_transaction_block can do with Unit u: the call returns Ok
\* only when the transaction was executed (with status success or failure);
\* it returns Err when the node refused it, or when the transport failed,
\* in which case the transaction may or may not have been executed.  k is
\* the number of tokens the mint_coin calls hand to the sender.
Outcomes(u, tx) ==
    LET execs == IF u = 2 /\ invokeMode = "consumes"
                 THEN {"failure"} ELSE {"success", "failure"}
    IN IF ~Admissible(tx)
       THEN {[ret |-> "Err", exec |-> "none", k |-> 0]}
       ELSE { o \in [ret : {"Ok", "Err"},
                     exec : execs \cup {"none"},
                     k : 0..NumMints] :
                /\ (o.ret = "Ok" => o.exec # "none")
                /\ (o.k > 0 => u = 1 /\ o.exec = "success") }

\* Every executed transaction, failed ones too, charges its gas coin, which
\* thereby gets a new version.
LiveAfter(u, tx, o) ==
    IF o.exec # "success" THEN live
    ELSE IF u = 1 THEN live \cup Minted(o.k)
    ELSE (live \ JoinedAway(tx.pt)) \cup SplitOff(tx.pt)

VerAfter(u, tx, o) ==
    LET gas == { tx.gas_payment[i][1] : i \in 1..Len(tx.gas_payment) }
        touched == IF o.exec = "none" THEN {}
                   ELSE IF o.exec = "failure" THEN gas
                   ELSE IF u = 1 THEN gas \cup Minted(o.k)
                   ELSE gas \cup Changed(tx.pt) \cup SplitOff(tx.pt)
    IN [id \in AllIds |-> IF id \in touched THEN Lamport(tx) ELSE ver[id]]

Execute(u, tx, o) ==
    /\ live' = LiveAfter(u, tx, o)
    /\ ver' = VerAfter(u, tx, o)
    /\ execStatus' = [execStatus EXCEPT ![u] = o.exec]
    /\ created1' = IF u = 1 /\ o.exec = "success" THEN Minted(o.k) ELSE created1

\* the response handed back on Ok
Response(u, o) ==
    [status |-> o.exec,
     created |-> IF u = 1 /\ o.exec = "success" THEN Minted(o.k) ELSE {}]

(* ---------------- initial state ---------------- *)
Init ==
    /\ pc = "connect"
    /\ err = ""
    /\ log = <<>>
    /\ addresses \in { [i \in 1..n |-> i] : n \in 0..MaxAddresses }
    /\ sender_address = NoAddress
    /\ \E p \in 0..MaxPriorTokens, g \in 0..MaxGasCoins :
          /\ live = (1..g) \cup ((TokenBase + 1)..(TokenBase + p))
          /\ ver = [id \in AllIds |->
                       IF id \in (1..g) \cup ((TokenBase + 1)..(TokenBase + p))
                       THEN 1 ELSE 0]
    /\ refPrice \in 1..MaxPrice
    /\ epochChanges = 0
    /\ invokeMode \in {"consumes", "borrows"}
    /\ execStatus = [u \in 1..2 |-> "none"]
    /\ created1 = {}
    /\ inflight = {}
    /\ submits = [u \in 1..2 |-> 0]
    /\ gas_coin = NoCoin
    /\ gas_price = NoPrice
    /\ tx_data1 = NoTx
    /\ signature1 = NoSignature
    /\ response1 = NoResponse
    /\ mint_coins = NoCoins
    /\ ptb2 = NewBuilder(2)
    /\ gas_coin2 = NoCoin
    /\ tx_data2 = NoTx
    /\ signature2 = NoSignature
    /\ response2 = NoResponse

(* ---------------- steps of main ---------------- *)
\* `?` and `return Err(..)`: main returns the error and does nothing else
Fail(kind) == pc' = "failed" /\ err' = kind

Step(name, next) == log' = Append(log, name) /\ pc' = next /\ err' = err

Logged(name) == log' = Append(log, name)


\* lines 30-34: IotaClientBuilder::default().build(..).await?
Connect ==
    /\ pc = "connect"
    /\ Logged("connect")
    /\ \/ pc' = "keystore" /\ err' = err
       \/ Fail("ConnectError")
    /\ UNCHANGED <<sender_address, refPrice, epochChanges, inflight, submits>>
    /\ UNCHANGED <<ledgerVars, envVars, unit1Vars, unit2Vars>>

\* a driver that does not test the address list for emptiness
LoadKeystore_NoCheck ==
    /\ pc = "keystore"
    /\ Logged("keystore")
    /\ \/ Fail("KeystoreError") /\ UNCHANGED sender_address
       \/ /\ sender_address' =
                IF Len(addresses) > 0 THEN addresses[1] ELSE NoAddress
          /\ pc' = "get_coins_gas1"
          /\ err' = err
    /\ UNCHANGED <<refPrice, epochChanges, inflight, submits>>
    /\ UNCHANGED <<ledgerVars, envVars, unit1Vars, unit2Vars>>

\* lines 36-49: load the key store and take its first address
LoadKeystore ==
    /\ pc = "keystore"
    /\ Logged("keystore")
    /\ \/ Fail("KeystoreError") /\ UNCHANGED sender_address
       \/ /\ Len(addresses) = 0
          /\ Fail("No addresses in keystore")
          /\ UNCHANGED sender_address
       \/ /\ Len(addresses) > 0
          /\ sender_address' = addresses[1]
          /\ pc' = "get_coins_gas1"
          /\ err' = err
    /\ UNCHANGED <<refPrice, epochChanges, inflight, submits>>
    /\ UNCHANGED <<ledgerVars, envVars, unit1Vars, unit2Vars>>

\* lines 51-58: get_coins(sender_address, None, None, None), coins.data.get(0)
GetCoinsGas1 ==
    /\ pc = "get_coins_gas1"
    /\ Logged("get_coins_gas1")
    /\ \/ Fail("RpcError") /\ UNCHANGED gas_coin
       \/ /\ LiveGas = {}
          /\ Fail("No coins found for gas")
          /\ UNCHANGED gas_coin
       \/ \E coins \in FirstK(LiveGas, 1) :
             /\ Len(coins) > 0
             /\ gas_coin' = [ref |-> ObjectRef(coins[1]), at |-> Len(log) + 1]
             /\ pc' = "get_gas_price"
             /\ err' = err
    /\ UNCHANGED <<sender_address, refPrice, epochChanges, inflight, submits>>
    /\ UNCHANGED <<gas_price, tx_data1, signature1, response1>>
    /\ UNCHANGED <<ledgerVars, envVars, unit2Vars>>

\* lines 60-62: get_reference_gas_price().await?
GetGasPrice ==
    /\ pc = "get_gas_price"
    /\ Logged("get_gas_price")
    /\ \/ Fail("RpcError") /\ UNCHANGED gas_price
       \/ /\ gas_price' = [val |-> refPrice, at |-> Len(log) + 1]
          /\ pc' = "build1"
          /\ err' = err
    /\ UNCHANGED <<sender_address, refPrice, epochChanges, inflight, submits>>
    /\ UNCHANGED <<gas_coin, tx_data1, signature1, response1>>
    /\ UNCHANGED <<ledgerVars, envVars, unit2Vars>>

\* lines 86-92
TxData1 ==
    NewProgrammable(sender_address, <<gas_coin.ref>>, Finish(Ptb1),
                    GasBudget, gas_price.val)

\* lines 64-92: build ptb1 and tx_data1
Build1 ==
    /\ pc = "build1"
    /\ Step("build1", "sign1")
    /\ tx_data1' = TxData1
    /\ UNCHANGED <<sender_address, refPrice, epochChanges, inflight, submits>>
    /\ UNCHANGED <<gas_coin, gas_price, signature1, response1>>
    /\ UNCHANGED <<ledgerVars, envVars, unit2Vars>>

\* a driver that goes on without a signature when signing failed
Sign1_IgnoreError ==
    /\ pc = "sign1"
    /\ Logged("sign1")
    /\ \/ /\ pc' = "submit1"
          /\ err' = err
          /\ UNCHANGED signature1
       \/ /\ signature1' = [by |-> sender_address, unit |-> 1]
          /\ pc' = "submit1"
          /\ err' = err
    /\ UNCHANGED <<sender_address, refPrice, epochChanges, inflight, submits>>
    /\ UNCHANGED <<gas_coin, gas_price, tx_data1, response1>>
    /\ UNCHANGED <<ledgerVars, envVars, unit2Vars>>

\* lines 94-95: keystore.sign_secure(&sender_address, &tx_data1, ..)?
Sign1 ==
    /\ pc = "sign1"
    /\ Logged("sign1")
    /\ \/ Fail("SigningError") /\ UNCHANGED signature1
       \/ /\ signature1' = [by |-> sender_address, unit |-> 1]
          /\ pc' = "submit1"
          /\ err' = err
    /\ UNCHANGED <<sender_address, refPrice, epochChanges, inflight, submits>>
    /\ UNCHANGED <<gas_coin, gas_price, tx_data1, response1>>
    /\ UNCHANGED <<ledgerVars, envVars, unit2Vars>>

Request(u) == [unit |-> u, mode |-> WaitForLocalExecution]

\* a submission that is sent and not awaited
Submit1_NoAwait ==
    /\ pc = "submit1"
    /\ Step("submit1", "get_coins_mint")
    /\ inflight' = inflight \cup {Request(1)}
    /\ submits' = [submits EXCEPT ![1] = @ + 1]
    /\ UNCHANGED <<sender_address, refPrice, epochChanges>>
    /\ UNCHANGED <<ledgerVars, envVars, unit1Vars, unit2Vars>>

\* lines 97-104: execute_transaction_block(tx1, .., WaitForLocalExecution)
Submit1 ==
    /\ pc = "submit1"
    /\ Step("submit1", "await1")
    /\ inflight' = inflight \cup {Request(1)}
    /\ submits' = [submits EXCEPT ![1] = @ + 1]
    /\ UNCHANGED <<sender_address, refPrice, epochChanges>>
    /\ UNCHANGED <<ledgerVars, envVars, unit1Vars, unit2Vars>>

\* a driver that sends Unit 1 again when the call returned an error
Return1_Retry ==
    /\ pc = "await1"
    /\ Request(1) \in inflight
    /\ Logged("return1")
    /\ inflight' = inflight \ {Request(1)}
    /\ \E o \in Outcomes(1, tx_data1) :
          /\ Execute(1, tx_data1, o)
          /\ \/ /\ o.ret = "Ok"
                /\ response1' = Response(1, o)
                /\ pc' = "get_coins_mint"
                /\ err' = err
             \/ /\ o.ret = "Err"
                /\ pc' = "submit1"
                /\ err' = err
                /\ UNCHANGED response1
    /\ UNCHANGED <<sender_address, refPrice, epochChanges, submits>>
    /\ UNCHANGED <<gas_coin, gas_price, tx_data1, signature1>>
    /\ UNCHANGED <<envVars, unit2Vars>>

\* lines 105-113: .await? returns; the effects are printed, not examined
Return1 ==
    /\ pc = "await1"
    /\ Request(1) \in inflight
    /\ Logged("return1")
    /\ inflight' = inflight \ {Request(1)}
    /\ \E o \in Outcomes(1, tx_data1) :
          /\ Execute(1, tx_data1, o)
          /\ \/ /\ o.ret = "Ok"
                /\ response1' = Response(1, o)
                /\ pc' = "get_coins_mint"
                /\ err' = err
             \/ /\ o.ret = "Err"
                /\ Fail("SubmissionError")
                /\ UNCHANGED response1
    /\ UNCHANGED <<sender_address, refPrice, epochChanges, submits>>
    /\ UNCHANGED <<gas_coin, gas_price, tx_data1, signature1>>
    /\ UNCHANGED <<envVars, unit2Vars>>

\* a driver that undoes Unit 1 when the bridge query falls short
ShortfallReturn_Burn ==
    /\ Fail("NotFound")
    /\ live' = live \ created1
    /\ UNCHANGED <<ver, execStatus, created1>>

\* a driver that waits for the missing tokens instead of returning
ShortfallReturn_Wait ==
    /\ pc' = "waiting"
    /\ err' = err
    /\ UNCHANGED ledgerVars

\* lines 126-128: return Err("... expected >= 3, found n")
ShortfallReturn ==
    /\ Fail("NotFound")
    /\ UNCHANGED ledgerVars

\* lines 115-133: sleep 5 s, get_coins(sender_address, Some(coin_type), ..),
\* then data[0], data[1], data[2]
GetCoinsMint ==
    /\ pc = "get_coins_mint"
    /\ Logged("get_coins_mint")
    /\ \/ Fail("RpcError") /\ UNCHANGED <<mint_coins, ledgerVars>>
       \/ /\ Cardinality(LiveTokens) < BridgeCount
          /\ ShortfallReturn
          /\ UNCHANGED mint_coins
       \/ /\ ~(Cardinality(LiveTokens) < BridgeCount)
          /\ \E coins \in FirstK(LiveTokens, 3) :
                mint_coins' = [refs |-> [i \in 1..3 |-> ObjectRef(coins[i])],
                               len |-> Cardinality(LiveTokens),
                               at |-> Len(log) + 1]
          /\ pc' = "build2"
          /\ err' = err
          /\ UNCHANGED ledgerVars
    /\ UNCHANGED <<sender_address, refPrice, epochChanges, inflight, submits>>
    /\ UNCHANGED <<ptb2, gas_coin2, tx_data2, signature2, response2>>
    /\ UNCHANGED <<envVars, unit1Vars>>

\* a transaction 2 that pays with the gas ObjectRef fetched for Unit 1
TxData2_ReuseGas(gas2) ==
    NewProgrammable(sender_address, <<gas_coin.ref>>, Finish(ptb2),
                    GasBudget, gas_price.val)

\* lines 221-227
TxData2(gas2) ==
    NewProgrammable(sender_address, <<gas2.ref>>, Finish(ptb2),
                    GasBudget, gas_price.val)

\* a driver that signs Unit 2 without selecting a fee source for it
Build2_SkipFee ==
    /\ pc = "build2"
    /\ Step("build2", "sign2")
    /\ ptb2' = Ptb2(mint_coins.refs[1], mint_coins.refs[2], mint_coins.refs[3],
                    sender_address)
    /\ tx_data2' = NewProgrammable(sender_address, <<gas_coin.ref>>,
                                   Finish(ptb2'), GasBudget, gas_price.val)
    /\ UNCHANGED <<sender_address, refPrice, epochChanges, inflight, submits>>
    /\ UNCHANGED <<mint_coins, gas_coin2, signature2, response2>>
    /\ UNCHANGED <<ledgerVars, envVars, unit1Vars>>

\* lines 135-212: build ptb2 from coin_ref1, coin_ref2, coin_ref3
Build2 ==
    /\ pc = "build2"
    /\ Step("build2", "get_coins_gas2")
    /\ ptb2' = Ptb2(mint_coins.refs[1], mint_coins.refs[2], mint_coins.refs[3],
                    sender_address)
    /\ UNCHANGED <<sender_address, refPrice, epochChanges, inflight, submits>>
    /\ UNCHANGED <<mint_coins, gas_coin2, tx_data2, signature2, response2>>
    /\ UNCHANGED <<ledgerVars, envVars, unit1Vars>>

\* lines 214-227: fetch the gas coins again, build tx_data2
GetCoinsGas2 ==
    /\ pc = "get_coins_gas2"
    /\ Logged("get_coins_gas2")
    /\ \/ Fail("RpcError") /\ UNCHANGED <<gas_coin2, tx_data2>>
       \/ /\ LiveGas = {}
          /\ Fail("No coins found for gas for transaction 2")
          /\ UNCHANGED <<gas_coin2, tx_data2>>
       \/ \E coins \in FirstK(LiveGas, 1) :
             /\ Len(coins) > 0
             /\ gas_coin2' = [ref |-> ObjectRef(coins[1]), at |-> Len(log) + 1]
             /\ tx_data2' = TxData2(gas_coin2')
             /\ pc' = "sign2"
             /\ err' = err
    /\ UNCHANGED <<sender_address, refPrice, epochChanges, inflight, submits>>
    /\ UNCHANGED <<mint_coins, ptb2, signature2, response2>>
    /\ UNCHANGED <<ledgerVars, envVars, unit1Vars>>

\* lines 229-230: keystore.sign_secure(&sender_address, &tx_data2, ..)?
Sign2 ==
    /\ pc = "sign2"
    /\ Logged("sign2")
    /\ \/ Fail("SigningError") /\ UNCHANGED signature2
       \/ /\ signature2' = [by |-> sender_address, unit |-> 2]
          /\ pc' = "submit2"
          /\ err' = err
    /\ UNCHANGED <<sender_address, refPrice, epochChanges, inflight, submits>>
    /\ UNCHANGED <<mint_coins, ptb2, gas_coin2, tx_data2, response2>>
    /\ UNCHANGED <<ledgerVars, envVars, unit1Vars>>

\* lines 232-239: execute_transaction_block(tx2, .., WaitForLocalExecution)
Submit2 ==
    /\ pc = "submit2"
    /\ Step("submit2", "await2")
    /\ inflight' = inflight \cup {Request(2)}
    /\ submits' = [submits EXCEPT ![2] = @ + 1]
    /\ UNCHANGED <<sender_address, refPrice, epochChanges>>
    /\ UNCHANGED <<ledgerVars, envVars, unit1Vars, unit2Vars>>

\* lines 240-250: .await? returns; the effects are printed; Ok(())
Return2 ==
    /\ pc = "await2"
    /\ Request(2) \in inflight
    /\ Logged("return2")
    /\ inflight' = inflight \ {Request(2)}
    /\ \E o \in Outcomes(2, tx_data2) :
          /\ Execute(2, tx_data2, o)
          /\ \/ /\ o.ret = "Ok"
                /\ response2' = Response(2, o)
                /\ pc' = "done"
                /\ err' = err
             \/ /\ o.ret = "Err"
                /\ Fail("SubmissionError")
                /\ UNCHANGED response2
    /\ UNCHANGED <<sender_address, refPrice, epochChanges, submits>>
    /\ UNCHANGED <<mint_coins, ptb2, gas_coin2, tx_data2, signature2>>
    /\ UNCHANGED <<envVars, unit1Vars>>

\* the network: the reference gas price changes at an epoch boundary, at any
\* moment of the run
EpochChange ==
    /\ Running
    /\ epochChanges < MaxEpochChanges
    /\ epochChanges' = epochChanges + 1
    /\ \E p \in (1..MaxPrice) \ {refPrice} : refPrice' = p
    /\ UNCHANGED <<pc, err, log, sender_address, inflight, submits>>
    /\ UNCHANGED <<ledgerVars, envVars, unit1Vars, unit2Vars>>

Next ==
    \/ Connect
    \/ LoadKeystore
    \/ GetCoinsGas1
    \/ GetGasPrice
    \/ Build1
    \/ Sign1
    \/ Submit1
    \/ Return1
    \/ GetCoinsMint
    \/ Build2
    \/ GetCoinsGas2
    \/ Sign2
    \/ Submit2
    \/ Return2
    \/ EpochChange

Spec == Init /\ [][Next]_vars

\* the steps of main itself: every statement of main is reached once the one
\* before it has returned, and every collaborator call returns
MainStep ==
    \/ Connect
    \/ LoadKeystore
    \/ GetCoinsGas1
    \/ GetGasPrice
    \/ Build1
    \/ Sign1
    \/ Submit1
    \/ Return1
    \/ GetCoinsMint
    \/ Build2
    \/ GetCoinsGas2
    \/ Sign2
    \/ Submit2
    \/ Return2

FairSpec == Spec /\ WF_vars(MainStep)

(* ---------------- type invariant ---------------- *)
TypeOK ==
    /\ pc \in {"connect", "keystore", "get_coins_gas1", "get_gas_price",
               "build1", "sign1", "submit1", "await1", "get_coins_mint",
               "build2", "get_coins_gas2", "sign2", "submit2", "await2",
               "done", "failed"}
    /\ live \subseteq AllIds
    /\ \A id \in live : ver[id] > 0
    /\ refPrice \in 1..MaxPrice
    /\ \A u \in 1..2 : execStatus[u] \in {"none", "success", "failure"}
    /\ (pc = "failed") = (err # "")


(* ======================= the claims ======================= *)

Functions(commands) == [i \in 1..Len(commands) |-> commands[i].target[3]]

\* Unit 2 has been built
Built2 == Pos("build2") > 0

\* C1: if Unit 1's submission returns confirmed with a failed execution
\* status, Unit 2 is never built, signed or submitted.
C1_RejectedIsTerminal ==
    response1.status = "failure" =>
        Pos("build2") = 0 /\ Pos("sign2") = 0 /\ submits[2] = 0

\* C2: Unit 2 is submitted only after the submit call of Unit 1, sent with
\* the finality-wait mode, has returned; at most one Unit is in flight.
C2_Sequential ==
    /\ Cardinality(inflight) <= 1
    /\ \A r \in inflight : r.mode = WaitForLocalExecution
    /\ Pos("submit2") > 0 =>
          /\ Pos("submit1") > 0
          /\ Pos("submit1") < Pos("return1")
          /\ Pos("return1") < Pos("submit2")
          /\ response1.status # "none"
          /\ execStatus[1] # "none"

C2_Witness == Request(2) \in inflight /\ Pos("return1") > 0

\* C3: whenever Unit 1 confirms but creates fewer than 3 tokens for the
\* sender, the run fails before Unit 2 is built, signed or submitted,
\* whatever tokens the sender owned before.
C3_ShortfallFails ==
    (response1.status = "success" /\ Cardinality(response1.created) < 3) =>
        /\ Pos("build2") = 0 /\ Pos("sign2") = 0 /\ submits[2] = 0
        /\ (Pos("get_coins_mint") > 0 => pc = "failed")

\* C4: the three token ObjectRefs Unit 2 declares as owned inputs are
\* objects created by the confirmed execution of Unit 1.
C4_InputsCreatedByUnit1 ==
    Built2 => \A r \in OwnedInputsOf(ptb2) : r[1] \in response1.created

\* C5: the frozen Units keep program order: mint, mint, mint; then
\* join(a,b), join(a,c), split(a,5), get_flag(counter, a'), and the handle
\* split returns is none of the handles the joins read.
C5_ProgramOrder ==
    /\ Pos("build1") > 0 =>
          Functions(tx_data1.pt.commands) =
              <<"mint_coin", "mint_coin", "mint_coin">>
    /\ Built2 =>
          LET cs == Finish(ptb2).commands
              ins == Finish(ptb2).inputs
              a == cs[1].arguments[1]
              b == cs[1].arguments[2]
              c == cs[2].arguments[2]
              a2 == cs[4].arguments[2]
          IN /\ SubSeq(Functions(cs), 1, 4) =
                    <<"join", "join", "split", "get_flag">>
             /\ cs[2].arguments[1] = a /\ cs[3].arguments[1] = a
             /\ a # b /\ a # c /\ b # c
             /\ ins[a.idx + 1].body = mint_coins.refs[1]
             /\ ins[b.idx + 1].body = mint_coins.refs[2]
             /\ ins[c.idx + 1].body = mint_coins.refs[3]
             /\ ins[cs[3].arguments[2].idx + 1] = Pure("u64", SplitValue)
             /\ ins[cs[4].arguments[1].idx + 1] = SharedObject(SHARED_COUNTER_ID)
             /\ a2.kind = "Result" /\ cs[a2.idx + 1].target[3] = "split"
             /\ a2 \notin {a, b, c}

C5_Witness == Built2 /\ Pos("build1") > 0

\* C6: no Unit is submitted more than once; after a submit call has
\* returned, with a result or an error, that Unit is not sent again.
C6_NoResubmission ==
    /\ \A u \in 1..2 : submits[u] <= 1
    /\ Pos("return1") > 0 => Request(1) \notin inflight
    /\ Pos("return2") > 0 => Request(2) \notin inflight

C6_Witness ==
    pc = "failed" /\ err = "SubmissionError" /\ execStatus[1] = "success"

\* the run is over without Unit 2 having taken effect
EndedWithoutUnit2 ==
    \/ pc = "failed"
    \/ pc = "done" /\ response2.status = "failure"

Before(p, q) == 0 < Pos(p) /\ Pos(p) < Pos(q)

\* C8 as stated: for each Unit, built, then fee selected, then signed, then
\* submitted.
C8_BuiltThenFeeSelected ==
    /\ Pos("get_coins_gas1") > 0 => Before("build1", "get_coins_gas1")
    /\ Pos("get_coins_gas2") > 0 => Before("build2", "get_coins_gas2")
    /\ Pos("sign1") > 0 => Before("get_coins_gas1", "sign1")
    /\ Pos("sign2") > 0 => Before("get_coins_gas2", "sign2")
    /\ Pos("submit1") > 0 => Before("sign1", "submit1")
    /\ Pos("submit2") > 0 => Before("sign2", "submit2")

\* C8 amended: for each Unit, signing comes after both the build and the fee
\* selection of that Unit, submission after signing and the return after
\* submission; Unit 2's fee source is selected after Unit 2 is built, while
\* Unit 1's fee source and price are selected before Unit 1 is built.
C8_PhaseOrder ==
    /\ Pos("build1") > 0 =>
          Before("get_coins_gas1", "get_gas_price")
          /\ Before("get_gas_price", "build1")
    /\ Pos("get_coins_gas2") > 0 => Before("build2", "get_coins_gas2")
    /\ Pos("sign1") > 0 =>
          Before("build1", "sign1") /\ Before("get_coins_gas1", "sign1")
    /\ Pos("sign2") > 0 =>
          Before("build2", "sign2") /\ Before("get_coins_gas2", "sign2")
    /\ Pos("submit1") > 0 => Before("sign1", "submit1")
    /\ Pos("submit2") > 0 => Before("sign2", "submit2")
    /\ Pos("return1") > 0 => Before("submit1", "return1")
    /\ Pos("return2") > 0 => Before("submit2", "return2")

C8_Witness == Pos("return2") > 0 /\ pc = "done"

\* C9: the fee price signed into Unit 2 comes from a price query issued
\* after Unit 1's submission returned.
C9_PriceQueriedForUnit2 ==
    Pos("sign2") > 0 =>
        /\ tx_data2.gas_price = gas_price.val
        /\ gas_price.at > Pos("return1")

\* C10: every owned ObjectRef of Unit 2 (fee source, three tokens) comes
\* from a query issued after Unit 1's submission returned, Unit 2's fee
\* ObjectRef differs from the one Unit 1 spent, and no ObjectRef is used by
\* both submissions.
C10_RefsResolvedAfresh ==
    Pos("sign2") > 0 =>
        /\ Pos("return1") > 0
        /\ gas_coin2.at > Pos("return1")
        /\ mint_coins.at > Pos("return1")
        /\ tx_data2.gas_payment = <<gas_coin2.ref>>
        /\ OwnedInputs(tx_data2) = { mint_coins.refs[i] : i \in 1..3 }
        /\ tx_data2.gas_payment[1] # tx_data1.gas_payment[1]
        /\ OwnedRefs(tx_data1) \cap OwnedRefs(tx_data2) = {}

C10_Witness ==
    /\ Pos("submit2") > 0
    /\ tx_data2.gas_payment[1][1] = tx_data1.gas_payment[1][1]


GasFailures ==
    {"No coins found for gas", "No coins found for gas for transaction 2"}

\* C11: the fee-payment ObjectRef of a Unit is an object the sender owns that
\* is none of the objects that Unit declares as inputs; when the sender owns
\* no gas coin the run fails and that Unit is neither signed nor submitted.
C11_FeeSourceApart ==
    /\ Pos("build1") > 0 =>
          /\ Len(tx_data1.gas_payment) = 1
          /\ tx_data1.gas_payment[1][1] \in GasIds
          /\ \A r \in OwnedInputs(tx_data1) : r[1] # tx_data1.gas_payment[1][1]
    /\ Pos("sign2") > 0 =>
          /\ Len(tx_data2.gas_payment) = 1
          /\ tx_data2.gas_payment[1][1] \in GasIds
          /\ tx_data2.gas_payment[1] = gas_coin2.ref
          /\ \A r \in OwnedInputs(tx_data2) : r[1] # tx_data2.gas_payment[1][1]
    /\ (Pos("get_coins_gas1") > 0 /\ gas_coin = NoCoin) =>
          pc = "failed" /\ Pos("sign1") = 0 /\ submits[1] = 0
    /\ (Pos("get_coins_gas2") > 0 /\ gas_coin2 = NoCoin) =>
          pc = "failed" /\ Pos("sign2") = 0 /\ submits[2] = 0
    /\ err \in GasFailures => LiveGas = {}

C11_Witness ==
    /\ Request(2) \in inflight
    /\ Cardinality(OwnedInputs(tx_data2)) = 3
    /\ Cardinality(LiveGas) = 1

(* ---------------- ownership inside Unit 2 ---------------- *)
\* the handles a command reads
Reads(cmd) ==
    { cmd.arguments[i] : i \in 1..Len(cmd.arguments) } \cup
    (IF cmd.kind = "TransferObjects" THEN {cmd.address} ELSE {})

\* The handles a command takes by value, after which they name nothing:
\* coin::join takes its second argument, TransferObjects the objects it
\* sends, and get_flag its coin when the contract declares it consumed;
\* coin::split and a borrowing get_flag take none.
Consumes(cmd, mode) ==
    IF cmd.kind = "TransferObjects"
    THEN { cmd.arguments[i] : i \in 1..Len(cmd.arguments) }
    ELSE IF cmd.target[3] = "join" THEN {cmd.arguments[2]}
    ELSE IF cmd.target[3] = "get_flag" /\ mode = "consumes"
         THEN {cmd.arguments[2]}
    ELSE {}

\* the handles of token objects in a transaction: its owned inputs and the
\* results of its split commands
TokenHandles(pt) ==
    { [kind |-> "Input", ptb |-> 2, idx |-> i - 1] :
        i \in { j \in 1..Len(pt.inputs) :
                    pt.inputs[j].kind = "ImmOrOwnedObject" } } \cup
    { [kind |-> "Result", ptb |-> 2, idx |-> i - 1] :
        i \in { j \in 1..Len(pt.commands) :
                    pt.commands[j].target[3] = "split" } }

\* how many commands take handle h by value
Disposals(pt, h, mode) ==
    Cardinality({ i \in 1..Len(pt.commands) :
                     h \in Consumes(pt.commands[i], mode) })

\* some command reads a handle an earlier command took by value
UseAfterConsume(pt, mode) ==
    \E i, j \in 1..Len(pt.commands) :
        /\ i < j
        /\ Consumes(pt.commands[i], mode) \cap Reads(pt.commands[j]) # {}

\* C12: whichever way get_flag is declared, no operation of Unit 2 reads a
\* handle whose object an earlier operation of Unit 2 consumed.
C12_NoUseAfterConsume ==
    Built2 => ~UseAfterConsume(Finish(ptb2), invokeMode)

\* C13: at the end of Unit 2 every token the Unit took as input or split
\* off has been disposed of exactly once (joined away, consumed by get_flag
\* or transferred to the sender).
C13_DisposedExactlyOnce ==
    Built2 =>
        \A h \in TokenHandles(Finish(ptb2)) :
            Disposals(Finish(ptb2), h, invokeMode) = 1

(* ---------------- handles and the order they are issued in -------------- *)
\* position of handle h among the handles builder b issued, 0 if b did not
\* issue it
IssuedAt(b, h) ==
    IF \E i \in 1..Len(b.issued) : b.issued[i] = h
    THEN CHOOSE i \in 1..Len(b.issued) : b.issued[i] = h
    ELSE 0

\* every handle command number j of builder b reads was issued by b before
\* the command was added
ReadsEarlier(b, j) ==
    LET own == [kind |-> "Result", ptb |-> b.id, idx |-> j - 1]
    IN \A h \in Reads(b.commands[j]) :
          /\ h.ptb = b.id
          /\ 0 < IssuedAt(b, h)
          /\ IssuedAt(b, h) < IssuedAt(b, own)

WellFormed(b) == \A j \in 1..Len(b.commands) : ReadsEarlier(b, j)

\* C14: every handle an operation reads was produced earlier in the same
\* Unit, by an input declaration or an earlier operation; Unit 2 reads no
\* handle of Unit 1's builder and no operation reads a handle issued after
\* it.
C14_HandlesProducedEarlier ==
    /\ WellFormed(Ptb1)
    /\ Built2 =>
          /\ WellFormed(ptb2)
          /\ \A j \in 1..Len(ptb2.commands) :
                \A h \in Reads(ptb2.commands[j]) :
                    /\ h.ptb = 2
                    /\ h.kind = "Input" => h.idx < Len(ptb2.inputs)
                    /\ h.kind = "Result" => h.idx < j - 1

C14_Witness ==
    /\ Built2
    /\ Len(ptb2.commands) = 6
    /\ \E j \in 1..Len(ptb2.commands) :
          \E h \in Reads(ptb2.commands[j]) : h.kind = "Result"

\* the collaborator calls of main
CollaboratorCalls ==
    {"connect", "keystore", "get_coins_gas1", "get_gas_price", "sign1",
     "return1", "get_coins_mint", "get_coins_gas2", "sign2", "return2"}

\* C15: a failure returned by a collaborator call ends the run with that
\* error: a step that follows a call in main is taken only when the call
\* returned a value, and once an error is returned nothing is in flight and
\* the failed call is the last step of the run.
C15_FailureEndsRun ==
    /\ Pos("get_gas_price") > 0 => gas_coin # NoCoin
    /\ Pos("build1") > 0 => gas_price # NoPrice
    /\ Pos("submit1") > 0 => signature1 # NoSignature
    /\ Pos("get_coins_mint") > 0 => response1 # NoResponse
    /\ Pos("build2") > 0 => mint_coins # NoCoins
    /\ Pos("sign2") > 0 => gas_coin2 # NoCoin
    /\ Pos("submit2") > 0 => signature2 # NoSignature
    /\ pc = "done" => response2 # NoResponse
    /\ \A i, j \in 1..Len(log) : i # j => log[i] # log[j]
    /\ (err # "") = (pc = "failed")
    /\ pc = "failed" =>
          /\ inflight = {}
          /\ log[Len(log)] \in CollaboratorCalls
          /\ (signature1 = NoSignature => submits[1] = 0)
          /\ (response1 = NoResponse => Pos("build2") = 0)
          /\ (signature2 = NoSignature => submits[2] = 0)

C15_Witness ==
    /\ pc = "failed"
    /\ err \in {"RpcError", "SigningError", "SubmissionError"}
    /\ response1 # NoResponse

\* the addresses the key store holds
Held == { addresses[i] : i \in 1..Len(addresses) }

\* C16: with an empty address list the run fails before any Unit is signed
\* or submitted; otherwise both Units are signed for, and sent by, the same
\* sender address, one the key store holds.
C16_SenderHeldBySigner ==
    /\ Len(addresses) = 0 =>
          /\ Pos("sign1") = 0 /\ Pos("sign2") = 0
          /\ submits[1] = 0 /\ submits[2] = 0
          /\ Pos("get_coins_gas1") = 0
          /\ (Pos("keystore") > 0 => pc = "failed")
    /\ Pos("sign1") > 0 =>
          sender_address \in Held /\ tx_data1.sender = sender_address
    /\ signature1 # NoSignature => signature1.by = tx_data1.sender
    /\ Pos("sign2") > 0 =>
          /\ sender_address \in Held
          /\ tx_data2.sender = sender_address
          /\ tx_data2.sender = tx_data1.sender
    /\ signature2 # NoSignature =>
          signature2.by = tx_data2.sender /\ signature2.by = signature1.by

C16_Witness ==
    /\ Request(2) \in inflight
    /\ signature1.by \in Held /\ signature2.by = signature1.by

Terminal == pc \in {"done", "failed"}

\* C17: when every collaborator call returns, every run ends, in success
\* after Unit 2's submission returned or in an error, and has issued at most
\* two submissions in all.
C17_Terminates ==
    /\ <>Terminal
    /\ [](submits[1] + submits[2] <= 2)
    /\ [](pc = "done" => Pos("return2") > 0 /\ err = "")
    /\ [](pc = "failed" => err # "")

C17_Witness == pc = "done" /\ submits[1] + submits[2] = 2

====
